---- MODULE Spec2Model ----
(***************************************************************************)
(* The installation state machine of `opennote init`: state inspection,    *)
(* the install / skip / update / repair decision, the retry-wrapped        *)
(* install-and-persist sequence and the cleanup on failure.                *)
(*                                                                         *)
(* Strings the code inspects (names, error messages) are sequences of      *)
(* tokens; a description or template is the pair (length, whitespace       *)
(* count) that the validator reads.  Times are ticks of a logical clock.   *)
(***************************************************************************)
EXTENDS Integers, Sequences, FiniteSets, TLC

VARIABLES
  fs,        \* .opencode: [state |-> state file, files |-> commands directory]
  now,       \* the clock read by `new Date()`
  catalog,   \* the command list handed to installCommands
  inv,       \* one record per invocation slot of the init action handler
  started,   \* number of invocations started so far
  faults,    \* number of I/O failures injected so far
  rmFailed,  \* whether a removal by cleanupInstallation has failed so far
  conc,      \* how many invocations may run at the same time
  probe,     \* the last direct call of a library function and its result
  writer     \* the LogFileWriter of the logger: its fields and its timers

vars == <<fs, now, catalog, inv, started, faults, rmFailed, conc, probe, writer>>

----------------------------------------------------------------------------
(* Bounds of the model *)

MaxInvocations == 2
MaxFaults == 3
NProcs == 3
NCommands == 2
MaxSegments == 3

Procs == 1..NProcs

----------------------------------------------------------------------------
(* Values *)

Absent == [kind |-> "absent"]     \* no such file
Null == [null |-> TRUE]           \* loadState's null
JsonNull == [t |-> "null"]        \* a JSON null inside a parsed value
Arr(seq) == [t |-> "array", v |-> seq]

NoCall == [op |-> "none"]       \* no library function was called directly

NoError == [code |-> "NONE", message |-> <<>>]

\* an optional string read from an object: <<>> when missing (or empty), so
\* that `!s` is `s = <<>>`
GetString(obj, f) == IF f \in DOMAIN obj THEN obj[f] ELSE <<>>

\* String.prototype.toLowerCase on one token
LowerTok(t) ==
  CASE t = "Network" -> "network"
    [] t = "Timeout" -> "timeout"
    [] t = "Temporary" -> "temporary"
    [] t = "Daily" -> "daily"
    [] OTHER -> t

ToLowerCase(s) == [i \in DOMAIN s |-> LowerTok(s[i])]

\* String.prototype.includes for a one-token needle
Includes(s, w) == \E i \in DOMAIN s : s[i] = w

LowerAlnumTokens == {"daily", "meeting", "idea", "zettel", "project", "learning",
                     "note", "network", "timeout", "temporary", "partial"}

----------------------------------------------------------------------------
(* The command catalog *)

Text(len, ws) == [len |-> len, ws |-> ws]

Cmd(name, description, template, agent) ==
  [name |-> name, description |-> description, template |-> template,
   agent |-> agent, model |-> ""]

PREDEFINED_COMMANDS ==
  << Cmd(<<"daily", "-", "note">>, Text(70, 9), Text(662, 141), "general"),
     Cmd(<<"meeting", "-", "note">>, Text(79, 8), Text(1187, 220), "general"),
     Cmd(<<"idea", "-", "note">>, Text(78, 9), Text(1726, 310), "general"),
     Cmd(<<"zettel", "-", "note">>, Text(79, 10), Text(2124, 346), "general"),
     Cmd(<<"project", "-", "note">>, Text(94, 11), Text(2259, 413), "general"),
     Cmd(<<"learning", "-", "note">>, Text(83, 10), Text(1888, 347), "general") >>

\* a catalog that lists its first command twice
Bundled_Duplicated == <<PREDEFINED_COMMANDS[1], PREDEFINED_COMMANDS[1]>>

\* the first NCommands entries of the bundled catalog
Bundled == SubSeq(PREDEFINED_COMMANDS, 1, NCommands)

\* the version createCli passes to createInitCommand
VERSION == <<"1", "0", "0">>

OldVersion == <<"0", "9", "0">>

----------------------------------------------------------------------------
(* Validator: command-registry.ts *)

NAME_REGEX(name) ==
  /\ Len(name) > 0
  /\ \A i \in DOMAIN name : name[i] \in LowerAlnumTokens \cup {"-"}

AGENT_VALUES == {"general", "plan", "build", "explore"}

\* !text || text.trim().length === 0
IsBlank(text) == text.len = 0 \/ text.ws = text.len

DescriptionLimit == 200

\* a validator that reports the first violated rule only
SelectErrors_FirstOnly(checks) ==
  LET hits == {i \in DOMAIN checks : checks[i][1]}
  IN IF hits = {} THEN <<>>
     ELSE << checks[CHOOSE i \in hits : \A j \in hits : i <= j][2] >>

SelectErrors(checks) ==
  LET F[i \in 0..Len(checks)] ==
        IF i = 0 THEN <<>>
        ELSE IF checks[i][1] THEN Append(F[i - 1], checks[i][2]) ELSE F[i - 1]
  IN F[Len(checks)]

validateCommand(command) ==
  LET errors == SelectErrors(<<
        << ~NAME_REGEX(command.name), "Name must be alphanumeric with hyphens only" >>,
        << IsBlank(command.description), "Description is required and cannot be empty" >>,
        << command.description.len > 0
             /\ command.description.len >= DescriptionLimit,
           "Description must be less than 200 characters" >>,
        << IsBlank(command.template), "Template is required and cannot be empty" >>,
        << command.agent # "" /\ command.agent \notin AGENT_VALUES,
           "Agent must be one of: general, plan, build, explore" >> >>)
  IN [valid |-> Len(errors) = 0, errors |-> errors]

----------------------------------------------------------------------------
(* State store: state-manager.ts *)

\* An object in memory: a record of its defined properties; the names of the
\* properties it holds with the value `undefined` are listed in field undef.
DefinedProps(obj) == [f \in DOMAIN obj \ {"undef"} |-> obj[f]]

\* JSON.stringify keeps the object's own defined properties and omits those
\* whose value is undefined
JsonStringify(state) == [kind |-> "json", value |-> DefinedProps(state)]

Garbage == [kind |-> "text"]

\* JSON.parse: the parsed value; SyntaxError on text that is not JSON
JsonParseThrows(content) == content.kind # "json"

JsonParse(content) == content.value

loadState(f) ==
  IF f.state = Absent THEN Null
  ELSE IF JsonParseThrows(f.state) THEN Null
  ELSE JsonParse(f.state)

isInitialized(f) ==
  LET state == loadState(f)
  IN state # Null /\ "initialized" \in DOMAIN state /\ state.initialized

\* reading .length of a JSON null raises a TypeError
isStateValidThrows(f) ==
  LET state == loadState(f)
  IN /\ state # Null
     /\ "initialized" \in DOMAIN state /\ state.initialized = TRUE
     /\ "commands" \in DOMAIN state /\ state.commands = JsonNull

\* isStateValid without the commands.length > 0 test
isStateValid_NoLength(f) ==
  LET state == loadState(f)
  IN IF state = Null THEN FALSE
     ELSE /\ "initialized" \in DOMAIN state /\ state.initialized = TRUE
          /\ "commands" \in DOMAIN state

isStateValid(f) ==
  LET state == loadState(f)
  IN IF state = Null THEN FALSE
     ELSE /\ "initialized" \in DOMAIN state /\ state.initialized = TRUE
          /\ "commands" \in DOMAIN state
          /\ Len(state.commands.v) > 0

Max(a, b) == IF a > b THEN a ELSE b

\* A version string is the sequence of its dot-separated segments.
\* Number(segment): the number a segment denotes, NaN when it denotes none.
\* NaN is a value below every number a segment of the model denotes.
NaN == 0 - 1

Number(seg) ==
  CASE seg = "0" -> 0
    [] seg = "1" -> 1
    [] seg = "2" -> 2
    [] seg = "9" -> 9
    [] seg = "10" -> 10
    [] seg = "" -> 0
    [] OTHER -> NaN

\* a > b on numbers: false when either side is NaN
NumGreater(a, b) == a # NaN /\ b # NaN /\ a > b

\* parts[i] ?? 0 after split(".").map(Number)
Part(v, i) == IF i <= Len(v) THEN Number(v[i]) ELSE 0

\* a comparison that looks only at the segments both versions have
compareVersions_NoPadding(v1, v2) ==
  LET n == IF Len(v1) < Len(v2) THEN Len(v1) ELSE Len(v2)
      F[i \in 1..(n + 1)] ==
        IF i > n THEN 0
        ELSE IF NumGreater(Part(v1, i), Part(v2, i)) THEN 1
        ELSE IF NumGreater(Part(v2, i), Part(v1, i)) THEN -1
        ELSE F[i + 1]
  IN F[1]

\* a comparison without the "less than" branch
compareVersions_NoLessBranch(v1, v2) ==
  LET n == Max(Len(v1), Len(v2))
      F[i \in 1..(n + 1)] ==
        IF i > n THEN 0
        ELSE IF NumGreater(Part(v1, i), Part(v2, i)) THEN 1
        ELSE F[i + 1]
  IN F[1]

compareVersions(v1, v2) ==
  LET n == Max(Len(v1), Len(v2))
      F[i \in 1..(n + 1)] ==
        IF i > n THEN 0
        ELSE IF NumGreater(Part(v1, i), Part(v2, i)) THEN 1
        ELSE IF NumGreater(Part(v2, i), Part(v1, i)) THEN -1
        ELSE F[i + 1]
  IN F[1]

\* needsUpdate with the arguments of compareVersions exchanged
needsUpdate_Swapped(currentVersion, newVersion) ==
  IF currentVersion = <<>> THEN TRUE
  ELSE compareVersions(currentVersion, newVersion) > 0

needsUpdate(currentVersion, newVersion) ==
  IF currentVersion = <<>> THEN TRUE
  ELSE compareVersions(newVersion, currentVersion) > 0

----------------------------------------------------------------------------
(* The file system under .opencode *)

NoFiles == <<>>     \* an empty commands directory (a function with no domain)

EmptyFs == [state |-> Absent, files |-> NoFiles]

FileKeys(f) == DOMAIN f.files

PutFile(f, name, file) ==
  [f EXCEPT !.files = [n \in (DOMAIN f.files) \cup {name} |->
                         IF n = name THEN file ELSE f.files[n]]]

\* a saveState that creates the state file but never replaces an existing one
saveState_NoOverwrite(f, state) ==
  IF f.state = Absent THEN [f EXCEPT !.state = JsonStringify(state)] ELSE f

\* errors raised by fs.mkdir / fs.writeFile / fs.rm
\* saveState when mkdir and writeFile succeed: the state file is replaced
saveState(f, state) == [f EXCEPT !.state = JsonStringify(state)]

IOError(code, text) == [code |-> code, message |-> <<code, text>>]

IOErrors ==
  { IOError("EACCES", "permission denied"),
    IOError("ENOSPC", "no space left"),
    IOError("EROFS", "read-only"),
    IOError("EAGAIN", "resource temporarily unavailable"),
    IOError("EMFILE", "too many open files") }

\* a write that fails after the file was opened leaves it truncated
FailsAfterOpen(e) == e.code = "ENOSPC"

TypeErrorNullLength == [code |-> "NONE", message |-> <<"Cannot read properties of null">>]

----------------------------------------------------------------------------
(* Installer: command-installer.ts *)

COMMANDS_DIR == <<".opencode", "commands">>

InvalidDefinitionError(command, errors) ==
  [code |-> "NONE",
   message |-> <<"Invalid command definition for">> \o command.name \o <<":">> \o errors]

\* the frontmatter block followed by the template
RenderCommand(command) ==
  << "---",
     <<"description:", command.description>>,
     IF command.agent # "" THEN <<"agent:", command.agent>> ELSE <<>>,
     IF command.model # "" THEN <<"model:", command.model>> ELSE <<>>,
     "---",
     command.template >>

CommandFile(command, t) == [content |-> RenderCommand(command), mtime |-> t]

TruncatedFile(t) == [content |-> <<>>, mtime |-> t]

----------------------------------------------------------------------------
(* Init controller: init.ts *)

MaxRetries == 3

\* isTransientError that also retries permission errors
isTransientError_AlsoEACCES(error) ==
  LET message == ToLowerCase(error.message)
  IN \/ error.code \in {"EACCES", "EAGAIN", "ECONNRESET", "ETIMEDOUT", "ENFILE", "EMFILE"}
     \/ Includes(message, "network")
     \/ Includes(message, "timeout")
     \/ Includes(message, "temporary")

\* a test of the message that does not lower-case it first
isTransientError_CaseSensitive(error) ==
  \/ error.code \in {"EAGAIN", "ECONNRESET", "ETIMEDOUT", "ENFILE", "EMFILE"}
  \/ Includes(error.message, "network")
  \/ Includes(error.message, "timeout")
  \/ Includes(error.message, "temporary")

isTransientError(error) ==
  LET message == ToLowerCase(error.message)
  IN \/ error.code \in {"EAGAIN", "ECONNRESET", "ETIMEDOUT", "ENFILE", "EMFILE"}
     \/ Includes(message, "network")
     \/ Includes(message, "timeout")
     \/ Includes(message, "temporary")

Pow2(n) == IF n = 0 THEN 1 ELSE IF n = 1 THEN 2 ELSE IF n = 2 THEN 4
           ELSE IF n = 3 THEN 8 ELSE 16

\* the delays of the doc comment (1s, 2s, 4s): 2^(attempt - 1) seconds
BackoffDelay_FromOne(attempt) == Pow2(attempt - 1) * 1000

BackoffDelay(attempt) == Pow2(attempt) * 1000

\* the no-op branch taken on a state that is not valid
IsNoopBranch_Invalid(initialized, stateValid, force) ==
  initialized /\ ~stateValid /\ ~force

\* init.ts line 220
IsNoopBranch(initialized, stateValid, force) == initialized /\ stateValid /\ ~force

\* the cleanup guard without the force flag
NeedsCleanupFirst_NoForce(initialized, stateValid, force) ==
  initialized /\ ~stateValid

\* a guard that cleans up whenever the state is not valid, absent included
NeedsCleanupFirst_NotValid(initialized, stateValid, force) ==
  ~stateValid \/ force

\* init.ts line 251
NeedsCleanupFirst(initialized, stateValid, force) ==
  (initialized /\ ~stateValid) \/ force

NoopReport(f, version) ==
  LET state == loadState(f)
  IN IF state # Null /\ needsUpdate(GetString(state, "version"), version)
     THEN "update-available"
     ELSE "already-initialized"

NewCommandRecord(cmd, version, t) ==
  [name |-> cmd.name, installedAt |-> t, version |-> version, source |-> "predefined"]

\* a newState whose records are in the reverse of the catalog order
NewState_Reversed(cat, version, t) ==
  [initialized |-> TRUE,
   version |-> version,
   installedAt |-> t,
   commands |-> Arr([i \in DOMAIN cat |->
                       NewCommandRecord(cat[Len(cat) + 1 - i], version, t)])]

NewState(cat, version, t) ==
  [initialized |-> TRUE,
   version |-> version,
   installedAt |-> t,
   commands |-> Arr([i \in DOMAIN cat |-> NewCommandRecord(cat[i], version, t)])]

\* a catch block that tests for disk space before it tests for permission
ClassifyError_DiskSpaceFirst(err) ==
  IF err.code = "ENOSPC" \/ Includes(err.message, "no space left") THEN "disk-space"
  ELSE IF err.code = "EACCES" \/ Includes(err.message, "permission denied") THEN "permission"
  ELSE IF err.code = "EROFS" \/ Includes(err.message, "read-only") THEN "read-only"
  ELSE "other"

ClassifyError(err) ==
  IF err.code = "EACCES" \/ Includes(err.message, "permission denied") THEN "permission"
  ELSE IF err.code = "ENOSPC" \/ Includes(err.message, "no space left") THEN "disk-space"
  ELSE IF err.code = "EROFS" \/ Includes(err.message, "read-only") THEN "read-only"
  ELSE "other"

\* what a failed fs.rm may leave behind: it stops at the first entry that
\* cannot be removed
RmFailOutcomes(f) ==
  {f, [f EXCEPT !.state = Absent], [f EXCEPT !.files = NoFiles]} \ {EmptyFs}

\* seen: the contents of the state file as each loadState of the handler
\* found it (in isInitialized, in isStateValid, and the handler's own)
IdleInv ==
  [pc |-> "idle", force |-> FALSE, initialized |-> FALSE, stateValid |-> FALSE,
   attempt |-> 0, idx |-> 0, lastError |-> NoError, exitCode |-> -1,
   outcome |-> "none", class |-> "none", hist |-> <<>>, snap |-> EmptyFs,
   startedAt |-> 0, faulted |-> FALSE, cleanupFailed |-> FALSE, seen |-> <<>>]

Running(p) == inv[p].pc \notin {"idle", "done"}

Log(r, ev) == [r EXCEPT !.hist = Append(@, ev)]

OnAttemptError_KeepsFirst(r, e) ==
  LET kept == IF r.lastError = NoError THEN e ELSE r.lastError
      r1 == Log([r EXCEPT !.lastError = kept], [e |-> "error", attempt |-> r.attempt, err |-> e])
  IN IF isTransientError(e)
     THEN [r1 EXCEPT !.pc = "backoff"]
     ELSE [r1 EXCEPT !.pc = "catch"]

\* the catch clause of retryOperation (init.ts lines 165-184), taken by
\* invocation record r on error e
OnAttemptError(r, e) ==
  LET r1 == Log([r EXCEPT !.lastError = e], [e |-> "error", attempt |-> r.attempt, err |-> e])
  IN IF isTransientError(e)
     THEN [r1 EXCEPT !.pc = "backoff"]
     ELSE [r1 EXCEPT !.pc = "catch"]

\* a retry that resumes at the command files instead of starting operation()
\* from its first statement
BeginAttempt_SkipsDirectory(r, n) == [r EXCEPT !.pc = "write", !.attempt = n, !.idx = 1]

\* an operation that saves the state before it installs anything
BeginAttempt_SaveFirst(r, n) == [r EXCEPT !.pc = "save", !.attempt = n, !.idx = 0]

\* the retry loop enters attempt n: operation() is about to be called
BeginAttempt(r, n) == [r EXCEPT !.pc = "mkdir", !.attempt = n, !.idx = 0]

Start(p, force) ==
  /\ ~Running(p)
  /\ \A q \in Procs : q < p => Running(q)
  /\ Cardinality({q \in Procs : Running(q)}) < conc
  /\ started < MaxInvocations
  /\ started' = started + 1
  /\ now' = now + 1
  /\ inv' = [inv EXCEPT ![p] = [IdleInv EXCEPT !.pc = "isInitialized", !.force = force,
                                               !.snap = fs, !.startedAt = now + 1]]
  /\ UNCHANGED <<fs, catalog, faults, rmFailed, conc, probe, writer>>

\* one of the conc invocations started together, each in its own slot: the
\* action handler is called again before the earlier calls have finished
Launch(p, force) ==
  /\ inv[p].pc = "idle"
  /\ \A q \in Procs : q < p => inv[q].pc # "idle"
  /\ started < conc
  /\ started' = started + 1
  /\ now' = now + 1
  /\ inv' = [inv EXCEPT ![p] = [IdleInv EXCEPT !.pc = "isInitialized", !.force = force,
                                               !.snap = fs, !.startedAt = now + 1]]
  /\ UNCHANGED <<fs, catalog, faults, rmFailed, conc, probe, writer>>

\* an isInitialized that deletes a state file it does not accept
CheckInitialized_RemovesUninitialized(p) ==
  /\ inv[p].pc = "isInitialized"
  /\ inv' = [inv EXCEPT ![p] = [@ EXCEPT !.pc = "isStateValid",
                                         !.initialized = isInitialized(fs),
                                         !.seen = Append(@, fs.state)]]
  /\ fs' = IF isInitialized(fs) THEN fs ELSE [fs EXCEPT !.state = Absent]
  /\ UNCHANGED <<now, catalog, started, faults, rmFailed, conc, probe, writer>>

\* const initialized = await isInitialized()
CheckInitialized(p) ==
  /\ inv[p].pc = "isInitialized"
  /\ inv' = [inv EXCEPT ![p] = [@ EXCEPT !.pc = "isStateValid",
                                         !.initialized = isInitialized(fs),
                                         !.seen = Append(@, fs.state)]]
  /\ UNCHANGED <<fs, now, catalog, started, faults, rmFailed, conc, probe, writer>>

\* const stateValid = await isStateValid(), and the branch taken on it
Decide(r, stateValid) ==
  LET r1 == [r EXCEPT !.stateValid = stateValid]
  IN IF IsNoopBranch(r.initialized, stateValid, r.force)
     THEN [r1 EXCEPT !.pc = "loadState"]
     ELSE IF NeedsCleanupFirst(r.initialized, stateValid, r.force)
     THEN [r1 EXCEPT !.pc = "cleanup"]
     ELSE BeginAttempt(r1, 1)

CheckStateValid(p) ==
  /\ inv[p].pc = "isStateValid"
  /\ inv' = [inv EXCEPT ![p] =
               IF isStateValidThrows(fs)
               THEN [@ EXCEPT !.pc = "catch", !.lastError = TypeErrorNullLength,
                              !.seen = Append(@, fs.state)]
               ELSE Decide([@ EXCEPT !.seen = Append(@, fs.state)], isStateValid(fs))]
  /\ UNCHANGED <<fs, now, catalog, started, faults, rmFailed, conc, probe, writer>>

\* the already-initialized / update-available branch
ReportNoop(p) ==
  /\ inv[p].pc = "loadState"
  /\ inv' = [inv EXCEPT ![p] = [@ EXCEPT !.pc = "done", !.exitCode = 0,
                                         !.outcome = NoopReport(fs, VERSION),
                                         !.seen = Append(@, fs.state)]]
  /\ UNCHANGED <<fs, now, catalog, started, faults, rmFailed, conc, probe, writer>>

\* a cleanup that removes the state file and leaves the commands directory
Cleanup_StateFileOnly(p, r) ==
  /\ fs' = [fs EXCEPT !.state = Absent]
  /\ inv' = [inv EXCEPT ![p] = Log(r, [e |-> "cleanup", ok |-> TRUE])]
  /\ UNCHANGED <<faults, rmFailed>>

\* a cleanup without the try/catch: the failure of the removal replaces the
\* error the invocation was handling
Cleanup_Unguarded(p, r) ==
  \/ /\ fs' = EmptyFs
     /\ inv' = [inv EXCEPT ![p] = Log(r, [e |-> "cleanup", ok |-> TRUE])]
     /\ UNCHANGED <<faults, rmFailed>>
  \/ /\ faults < MaxFaults
     /\ \E f \in RmFailOutcomes(fs) : fs' = f
     /\ faults' = faults + 1
     /\ rmFailed' = TRUE
     /\ inv' = [inv EXCEPT ![p] =
                  Log([r EXCEPT !.faulted = TRUE, !.cleanupFailed = TRUE,
                                !.lastError = IOError("EBUSY", "resource busy or locked"),
                                !.class = "other"],
                      [e |-> "cleanup", ok |-> FALSE])]

\* a cleanup that removes the state file and the files of the catalog's
\* commands, and leaves every other entry of the root in place
Cleanup_OwnFilesOnly(p, r) ==
  /\ fs' = [state |-> Absent,
            files |-> [n \in FileKeys(fs) \ {catalog[i].name : i \in DOMAIN catalog}
                         |-> fs.files[n]]]
  /\ inv' = [inv EXCEPT ![p] = Log(r, [e |-> "cleanup", ok |-> TRUE])]
  /\ UNCHANGED <<faults, rmFailed>>

\* cleanupInstallation: fs.rm(".opencode", {recursive, force}); a failure is
\* logged and swallowed.  r is the invocation record after the call.
Cleanup(p, r) ==
  \/ /\ fs' = EmptyFs
     /\ inv' = [inv EXCEPT ![p] = Log(r, [e |-> "cleanup", ok |-> TRUE])]
     /\ UNCHANGED <<faults, rmFailed>>
  \/ /\ faults < MaxFaults
     /\ \E f \in RmFailOutcomes(fs) : fs' = f
     /\ faults' = faults + 1
     /\ rmFailed' = TRUE
     /\ inv' = [inv EXCEPT ![p] = Log([r EXCEPT !.faulted = TRUE, !.cleanupFailed = TRUE],
                                      [e |-> "cleanup", ok |-> FALSE])]

\* a handler that treats a failed removal before the reinstall as the
\* failure of the invocation
PreCleanup_AbortsOnFailure(p) ==
  /\ inv[p].pc = "cleanup"
  /\ \/ /\ fs' = EmptyFs
        /\ inv' = [inv EXCEPT ![p] = Log(BeginAttempt(@, 1), [e |-> "cleanup", ok |-> TRUE])]
        /\ UNCHANGED <<faults, rmFailed>>
     \/ /\ faults < MaxFaults
        /\ \E f \in RmFailOutcomes(fs) : fs' = f
        /\ faults' = faults + 1
        /\ rmFailed' = TRUE
        /\ inv' = [inv EXCEPT ![p] =
                     Log([@ EXCEPT !.pc = "catch", !.faulted = TRUE, !.cleanupFailed = TRUE,
                                   !.lastError = IOError("EBUSY", "resource busy or locked")],
                         [e |-> "cleanup", ok |-> FALSE])]
  /\ UNCHANGED <<now, catalog, started, conc, probe, writer>>

\* a handler that goes on to the install without removing anything
PreCleanup_Skipped(p) ==
  /\ inv[p].pc = "cleanup"
  /\ inv' = [inv EXCEPT ![p] = BeginAttempt(@, 1)]
  /\ UNCHANGED <<fs, faults, rmFailed, now, catalog, started, conc, probe, writer>>

\* the cleanup before reinstalling (init.ts lines 251-257)
PreCleanup(p) ==
  /\ inv[p].pc = "cleanup"
  /\ Cleanup(p, BeginAttempt(inv[p], 1))
  /\ UNCHANGED <<now, catalog, started, conc, probe, writer>>

\* a createCommandDirectory without {recursive: true}: mkdir fails with
\* EEXIST once another invocation has created the directory
CreateCommandDirectory_NotRecursive(p) ==
  /\ inv[p].pc = "mkdir"
  /\ LET r == Log(inv[p], [e |-> "attempt", n |-> inv[p].attempt])
     IN IF fs.files # NoFiles
        THEN /\ inv' = [inv EXCEPT ![p] =
                          OnAttemptError(r, IOError("EEXIST", "file already exists"))]
             /\ UNCHANGED faults
        ELSE \/ /\ inv' = [inv EXCEPT ![p] =
                             [r EXCEPT !.pc = IF Len(catalog) = 0 THEN "save" ELSE "write",
                                       !.idx = 1]]
                /\ UNCHANGED faults
             \/ /\ faults < MaxFaults
                /\ faults' = faults + 1
                /\ \E e \in IOErrors :
                     inv' = [inv EXCEPT ![p] = OnAttemptError([r EXCEPT !.faulted = TRUE], e)]
  /\ UNCHANGED <<fs, now, catalog, started, rmFailed, conc, probe, writer>>

\* an installer whose loop starts at the second command
CreateCommandDirectory_SkipsFirst(p) ==
  /\ inv[p].pc = "mkdir"
  /\ LET r == Log(inv[p], [e |-> "attempt", n |-> inv[p].attempt])
     IN \/ /\ inv' = [inv EXCEPT ![p] =
                        [r EXCEPT !.pc = IF Len(catalog) <= 1 THEN "save" ELSE "write",
                                  !.idx = 2]]
           /\ UNCHANGED faults
        \/ /\ faults < MaxFaults
           /\ faults' = faults + 1
           /\ \E e \in IOErrors :
                inv' = [inv EXCEPT ![p] = OnAttemptError([r EXCEPT !.faulted = TRUE], e)]
  /\ UNCHANGED <<fs, now, catalog, started, rmFailed, conc, probe, writer>>

\* operation() is called and awaits createCommandDirectory()
CreateCommandDirectory(p) ==
  /\ inv[p].pc = "mkdir"
  /\ LET r == Log(inv[p], [e |-> "attempt", n |-> inv[p].attempt])
     IN \/ /\ inv' = [inv EXCEPT ![p] =
                        [r EXCEPT !.pc = IF Len(catalog) = 0 THEN "save" ELSE "write",
                                  !.idx = 1]]
           /\ UNCHANGED faults
        \/ /\ faults < MaxFaults
           /\ faults' = faults + 1
           /\ \E e \in IOErrors :
                inv' = [inv EXCEPT ![p] = OnAttemptError([r EXCEPT !.faulted = TRUE], e)]
  /\ UNCHANGED <<fs, now, catalog, started, rmFailed, conc, probe, writer>>

\* a createCommandFile that writes the file and validates afterwards
CreateCommandFile_WriteFirst(p) ==
  /\ inv[p].pc = "write"
  /\ LET command == catalog[inv[p].idx]
         validation == validateCommand(command)
         next == [inv[p] EXCEPT !.idx = @ + 1,
                                !.pc = IF inv[p].idx = Len(catalog) THEN "save" ELSE "write"]
     IN IF ~validation.valid
        THEN /\ fs' = PutFile(fs, command.name, CommandFile(command, now))
             /\ inv' = [inv EXCEPT ![p] =
                          OnAttemptError(@, InvalidDefinitionError(command, validation.errors))]
             /\ UNCHANGED faults
        ELSE \/ /\ fs' = PutFile(fs, command.name, CommandFile(command, now))
                /\ inv' = [inv EXCEPT ![p] = Log(next, [e |-> "write", name |-> command.name])]
                /\ UNCHANGED faults
             \/ /\ faults < MaxFaults
                /\ faults' = faults + 1
                /\ \E e \in IOErrors :
                     /\ \/ UNCHANGED fs
                        \/ /\ FailsAfterOpen(e)
                           /\ fs' = PutFile(fs, command.name, TruncatedFile(now))
                     /\ inv' = [inv EXCEPT ![p] = OnAttemptError([@ EXCEPT !.faulted = TRUE], e)]
  /\ UNCHANGED <<now, catalog, started, rmFailed, conc, probe, writer>>

\* await createCommandFile(command), for the next command of the loop
CreateCommandFile(p) ==
  /\ inv[p].pc = "write"
  /\ LET command == catalog[inv[p].idx]
         validation == validateCommand(command)
         next == [inv[p] EXCEPT !.idx = @ + 1,
                                !.pc = IF inv[p].idx = Len(catalog) THEN "save" ELSE "write"]
     IN IF ~validation.valid
        THEN /\ inv' = [inv EXCEPT ![p] =
                          OnAttemptError(@, InvalidDefinitionError(command, validation.errors))]
             /\ UNCHANGED <<fs, faults>>
        ELSE \/ /\ fs' = PutFile(fs, command.name, CommandFile(command, now))
                /\ inv' = [inv EXCEPT ![p] = Log(next, [e |-> "write", name |-> command.name])]
                /\ UNCHANGED faults
             \/ /\ faults < MaxFaults
                /\ faults' = faults + 1
                /\ \E e \in IOErrors :
                     /\ \/ UNCHANGED fs
                        \/ /\ FailsAfterOpen(e)
                           /\ fs' = PutFile(fs, command.name, TruncatedFile(now))
                     /\ inv' = [inv EXCEPT ![p] = OnAttemptError([@ EXCEPT !.faulted = TRUE], e)]
  /\ UNCHANGED <<now, catalog, started, rmFailed, conc, probe, writer>>

\* build newState and await saveState(newState); on success the retry
\* wrapper returns and the success output is printed
SaveState(p) ==
  /\ inv[p].pc = "save"
  /\ \/ /\ fs' = saveState(fs, NewState(catalog, VERSION, now))
        /\ inv' = [inv EXCEPT ![p] = Log([@ EXCEPT !.pc = "done", !.exitCode = 0,
                                                   !.outcome = "success"],
                                         [e |-> "save"])]
        /\ UNCHANGED faults
     \/ /\ faults < MaxFaults
        /\ faults' = faults + 1
        /\ \E e \in IOErrors :
             /\ \/ UNCHANGED fs
                \/ /\ FailsAfterOpen(e)
                   /\ fs' = [fs EXCEPT !.state = Garbage]
             /\ inv' = [inv EXCEPT ![p] = OnAttemptError([@ EXCEPT !.faulted = TRUE], e)]
  /\ UNCHANGED <<now, catalog, started, rmFailed, conc, probe, writer>>

\* a retry loop without the attempt limit
AfterBackoff_NoLimit(r) ==
  BeginAttempt(Log(r, [e |-> "wait", ms |-> BackoffDelay(r.attempt)]), r.attempt + 1)

\* a retry loop that gives up right after the last attempt, without waiting
AfterBackoff_SkipsLastWait(r) ==
  IF r.attempt + 1 <= MaxRetries
  THEN BeginAttempt(Log(r, [e |-> "wait", ms |-> BackoffDelay(r.attempt)]), r.attempt + 1)
  ELSE [r EXCEPT !.pc = "catch"]

\* the setTimeout of the backoff elapses; the loop goes on or gives up
AfterBackoff(r) ==
  LET r1 == Log(r, [e |-> "wait", ms |-> BackoffDelay(r.attempt)])
  IN IF r.attempt + 1 <= MaxRetries
     THEN BeginAttempt(r1, r.attempt + 1)
     ELSE [r1 EXCEPT !.pc = "catch"]

Backoff(p) ==
  /\ inv[p].pc = "backoff"
  /\ now' = now + 1
  /\ inv' = [inv EXCEPT ![p] = AfterBackoff(@)]
  /\ UNCHANGED <<fs, catalog, started, faults, rmFailed, conc, probe, writer>>

\* a catch block whose last branch (unclassified errors) forgets the cleanup
HandleFailure_OtherNoCleanup(p) ==
  /\ inv[p].pc = "catch"
  /\ LET r == [inv[p] EXCEPT !.pc = "done", !.exitCode = 1, !.outcome = "failed",
                              !.class = ClassifyError(inv[p].lastError)]
     IN IF r.class = "other"
        THEN inv' = [inv EXCEPT ![p] = r] /\ UNCHANGED <<fs, faults, rmFailed>>
        ELSE Cleanup(p, r)
  /\ UNCHANGED <<now, catalog, started, conc, probe, writer>>

\* a catch block that reports and cleans up but returns instead of calling
\* process.exit(1)
HandleFailure_NoExit(p) ==
  /\ inv[p].pc = "catch"
  /\ Cleanup(p, [inv[p] EXCEPT !.pc = "done", !.exitCode = 0, !.outcome = "failed",
                               !.class = ClassifyError(inv[p].lastError)])
  /\ UNCHANGED <<now, catalog, started, conc, probe, writer>>

\* the catch block of the action handler: classify, clean up, process.exit(1)
HandleFailure(p) ==
  /\ inv[p].pc = "catch"
  /\ Cleanup(p, [inv[p] EXCEPT !.pc = "done", !.exitCode = 1, !.outcome = "failed",
                               !.class = ClassifyError(inv[p].lastError)])
  /\ UNCHANGED <<now, catalog, started, conc, probe, writer>>

----------------------------------------------------------------------------
(* Direct calls of the state store, as its callers and its unit tests make *)

\* what a later call remembers of the call before it
Brief(call) ==
  IF call.op = "saveState"
  THEN [op |-> call.op, state |-> call.state, threw |-> call.threw,
        dirExisted |-> call.dirExisted, fileExisted |-> call.fileExisted]
  ELSE [op |-> call.op]

\* loadState(): readFails is the outcome of fs.readFile
CallLoadState ==
  /\ \E readFails \in {r \in BOOLEAN : r => fs.state # Absent} :
       probe' = [op |-> "loadState", file |-> fs.state, readFailed |-> readFails,
                 threw |-> FALSE,
                 result |-> IF readFails THEN Null ELSE loadState(fs),
                 prev |-> Brief(probe)]
  /\ UNCHANGED <<fs, now, catalog, inv, started, faults, rmFailed, conc, writer>>

\* saveState(state): mkdir, then writeFile; an I/O error is rethrown
CallSaveState(state) ==
  /\ \/ /\ fs' = saveState(fs, state)
        /\ probe' = [op |-> "saveState", state |-> state, threw |-> FALSE,
                     dirExisted |-> fs # EmptyFs, fileExisted |-> fs.state # Absent]
     \/ \E e \in IOErrors :
          /\ \/ UNCHANGED fs
             \/ /\ FailsAfterOpen(e)
                /\ fs' = [fs EXCEPT !.state = Garbage]
          /\ probe' = [op |-> "saveState", state |-> state, threw |-> TRUE,
                       dirExisted |-> fs # EmptyFs, fileExisted |-> fs.state # Absent]
  /\ UNCHANGED <<now, catalog, inv, started, faults, rmFailed, conc, writer>>

\* isStateValid()
CallIsStateValid ==
  /\ probe' = [op |-> "isStateValid", file |-> fs.state,
               threw |-> isStateValidThrows(fs),
               result |-> ~isStateValidThrows(fs) /\ isStateValid(fs)]
  /\ UNCHANGED <<fs, now, catalog, inv, started, faults, rmFailed, conc, writer>>

----------------------------------------------------------------------------
(* Direct calls of the pure functions: probe holds the arguments, then the *)
(* arguments and the result                                                *)

\* needsUpdate(currentVersion, newVersion)
CallNeedsUpdate ==
  /\ probe.op = "versions"
  /\ probe' = [op |-> "needsUpdate", currentVersion |-> probe.currentVersion,
               newVersion |-> probe.newVersion,
               result |-> needsUpdate(probe.currentVersion, probe.newVersion)]
  /\ UNCHANGED <<fs, now, catalog, inv, started, faults, rmFailed, conc, writer>>

\* compareVersions(v1, v2), on two version strings
CallCompareVersions ==
  /\ probe.op = "versions"
  /\ probe.currentVersion # <<>>
  /\ probe' = [op |-> "compareVersions", v1 |-> probe.currentVersion,
               v2 |-> probe.newVersion,
               result |-> compareVersions(probe.currentVersion, probe.newVersion)]
  /\ UNCHANGED <<fs, now, catalog, inv, started, faults, rmFailed, conc, writer>>

\* isTransientError(error)
CallIsTransientError ==
  /\ probe.op = "error"
  /\ probe' = [op |-> "isTransientError", error |-> probe.error,
               result |-> isTransientError(probe.error)]
  /\ UNCHANGED <<fs, now, catalog, inv, started, faults, rmFailed, conc, writer>>

\* validateCommand(command)
CallValidateCommand ==
  /\ probe.op = "command"
  /\ probe' = [op |-> "validateCommand", command |-> probe.command,
               result |-> validateCommand(probe.command)]
  /\ UNCHANGED <<fs, now, catalog, inv, started, faults, rmFailed, conc, writer>>

----------------------------------------------------------------------------
(* LogFileWriter (logger.ts): buffered appends to the log file.  A message  *)
(* is named by the number of the write call that passed it.                *)

MaxBufferSize == 100

MaxWrites == 101
MaxTimers == 3

\* buffer, writeScheduled: the fields of the object; timers: the setTimeout
\* callbacks not yet run; appended: the messages of the contents handed to
\* fs.appendFile, in the order of the calls; written: the write calls so far
NewLogFileWriter ==
  [buffer |-> <<>>, writeScheduled |-> FALSE, timers |-> 0, appended |-> <<>>, written |-> 0]

\* a flush that empties the buffer and leaves writeScheduled as it is
flush_KeepsScheduled(w) ==
  IF w.buffer = <<>> THEN w
  ELSE [w EXCEPT !.appended = @ \o w.buffer, !.buffer = <<>>]

\* flush(), up to its await: the buffer is joined into one content, reset
\* together with writeScheduled, and the content goes to fs.appendFile
flush(w) ==
  IF w.buffer = <<>> THEN w
  ELSE [w EXCEPT !.appended = @ \o w.buffer, !.buffer = <<>>, !.writeScheduled = FALSE]

\* write(message)
write ==
  /\ writer.written < MaxWrites
  /\ LET message == writer.written + 1
         w == [writer EXCEPT !.buffer = Append(@, message), !.written = message]
     IN IF Len(w.buffer) >= MaxBufferSize
        THEN writer' = flush(w)
        ELSE IF ~w.writeScheduled
        THEN /\ w.timers < MaxTimers
             /\ writer' = [w EXCEPT !.writeScheduled = TRUE, !.timers = @ + 1]
        ELSE writer' = w
  /\ UNCHANGED <<fs, now, catalog, inv, started, faults, rmFailed, conc, probe>>

\* an explicit flush(), as Logger.flush calls it
Flush ==
  /\ writer' = flush(writer)
  /\ UNCHANGED <<fs, now, catalog, inv, started, faults, rmFailed, conc, probe>>

\* a setTimeout(resolve, 100) of write elapses and its callback calls flush()
TimerFires ==
  /\ writer.timers > 0
  /\ writer' = flush([writer EXCEPT !.timers = @ - 1])
  /\ UNCHANGED <<fs, now, catalog, inv, started, faults, rmFailed, conc, probe>>

----------------------------------------------------------------------------
(* Specifications *)

\* a state file as a user or an earlier version may have left it
OldRecord(cmd) == NewCommandRecord(cmd, OldVersion, 0)

InitialStateFiles ==
  { Absent,
    Garbage,
    JsonStringify([initialized |-> FALSE]),
    JsonStringify([initialized |-> TRUE]),
    JsonStringify([initialized |-> TRUE, version |-> OldVersion, commands |-> Arr(<<>>)]),
    JsonStringify([version |-> OldVersion,
                   commands |-> Arr([i \in DOMAIN Bundled |-> OldRecord(Bundled[i])])]),
    JsonStringify([initialized |-> TRUE, commands |-> JsonNull]),
    JsonStringify(NewState(Bundled, OldVersion, 0)),
    JsonStringify(NewState(Bundled, VERSION, 0)) }

StaleName == <<"partial">>

StaleFile == [content |-> <<"partial installation">>, mtime |-> 0]

InstalledFiles == [n \in {Bundled[i].name : i \in DOMAIN Bundled} |->
                     CommandFile(CHOOSE c \in {Bundled[i] : i \in DOMAIN Bundled} : c.name = n, 0)]

InitialFiles ==
  { NoFiles,
    PutFile([state |-> Absent, files |-> InstalledFiles], StaleName, StaleFile).files }

InitialFs == { [state |-> s, files |-> f] : s \in InitialStateFiles, f \in InitialFiles }

InitCommon ==
  /\ now = 0
  /\ writer = NewLogFileWriter
  /\ inv = [p \in Procs |-> IdleInv]
  /\ started = 0
  /\ faults = 0
  /\ rmFailed = FALSE
  /\ probe = NoCall

Init ==
  /\ InitCommon
  /\ fs \in InitialFs
  /\ catalog = Bundled
  /\ conc = 1

Next ==
  \E p \in Procs :
    \/ \E force \in BOOLEAN : Start(p, force)
    \/ CheckInitialized(p)
    \/ CheckStateValid(p)
    \/ ReportNoop(p)
    \/ PreCleanup(p)
    \/ CreateCommandDirectory(p)
    \/ CreateCommandFile(p)
    \/ SaveState(p)
    \/ Backoff(p)
    \/ HandleFailure(p)

Spec == Init /\ [][Next]_vars

\* one step of a started invocation: the continuation of an await
Step(p) ==
  \/ CheckInitialized(p)
  \/ CheckStateValid(p)
  \/ ReportNoop(p)
  \/ PreCleanup(p)
  \/ CreateCommandDirectory(p)
  \/ CreateCommandFile(p)
  \/ SaveState(p)
  \/ Backoff(p)
  \/ HandleFailure(p)

\* every run starts from an empty installation root
InitEmpty ==
  /\ InitCommon
  /\ fs = EmptyFs
  /\ catalog = Bundled
  /\ conc = 1

SpecEmpty == InitEmpty /\ [][Next]_vars

\* every file-system call settles and every backoff timer fires, so a started
\* invocation always takes its next step; nothing forces a new invocation.
\* Runs start from an empty installation root and are sequential (conc = 1),
\* so the running invocation is the only one that can step.
SpecFair == InitEmpty /\ [][Next]_vars /\ WF_vars(\E p \in Procs : Step(p))

\* the number of invocations the reliability test starts together
Concurrency == 3

\* Invocations, with or without --force, interleaved at their awaits on an
\* empty installation root: either Concurrency of them with no I/O failure
\* (the failure budget is spent), or two of them with at most one I/O failure.
InitConcurrent ==
  /\ now = 0
  /\ writer = NewLogFileWriter
  /\ inv = [p \in Procs |-> IdleInv]
  /\ started = 0
  /\ rmFailed = FALSE
  /\ probe = NoCall
  /\ fs = EmptyFs
  /\ catalog = Bundled
  /\ \/ conc = Concurrency /\ faults = MaxFaults
     \/ conc = 2 /\ faults = MaxFaults - 1

NextConcurrent ==
  \E p \in Procs :
    \/ \E force \in BOOLEAN : Launch(p, force)
    \/ Step(p)

SpecConcurrent == InitConcurrent /\ [][NextConcurrent]_vars

\* a command file whose content was overwritten after the installation
CorruptedCommandFile == [content |-> <<"invalid content">>, mtime |-> 0]

\* a valid state file next to command files of which the first is corrupted
InitCorruptedFile ==
  /\ InitCommon
  /\ fs \in {[state |-> JsonStringify(NewState(Bundled, v, 0)),
               files |-> [InstalledFiles EXCEPT ![Bundled[1].name] = CorruptedCommandFile]] :
              v \in {VERSION, OldVersion}}
  /\ catalog = Bundled
  /\ conc = 1

SpecCorruptedFile == InitCorruptedFile /\ [][Next]_vars

\* Two invocations, with or without --force, interleaved at their awaits on
\* an installation root that holds an installation (of this version or of
\* an older one) or a state file that is not initialized; at most one I/O
\* failure.
InitInstalled ==
  /\ now = 0
  /\ writer = NewLogFileWriter
  /\ inv = [p \in Procs |-> IdleInv]
  /\ started = 0
  /\ rmFailed = FALSE
  /\ probe = NoCall
  /\ catalog = Bundled
  /\ fs \in {[state |-> s, files |-> InstalledFiles] :
               s \in {JsonStringify(NewState(Bundled, VERSION, 0)),
                      JsonStringify(NewState(Bundled, OldVersion, 0)),
                      JsonStringify([initialized |-> FALSE])}}
  /\ conc = 2
  /\ faults = MaxFaults - 1

SpecInstalled == InitInstalled /\ [][NextConcurrent]_vars

\* command definitions that break a rule of the validator
BlankDescription(name) == Cmd(name, Text(0, 0), Text(10, 2), "general")

InvalidCommands ==
  { BlankDescription(<<"daily", "-", "note">>),
    BlankDescription(<<"network", "-", "note">>),
    Cmd(<<"Temporary", "note">>, Text(20, 2), Text(10, 2), "general"),
    Cmd(<<"idea", "-", "note">>, Text(200, 20), Text(0, 0), "planner") }

\* installCommands applied to any short list of definitions
Catalogs ==
  {Bundled} \cup {<<c>> : c \in InvalidCommands}
            \cup {<<Bundled[1], c>> : c \in InvalidCommands}

InitCatalog ==
  /\ InitCommon
  /\ fs \in {EmptyFs, [state |-> JsonStringify(NewState(Bundled, OldVersion, 0)),
                       files |-> InstalledFiles]}
  /\ catalog \in Catalogs
  /\ conc = 1

SpecCatalog == InitCatalog /\ [][Next]_vars

\* objects of type InstallationState, as callers build them
States ==
  { NewState(Bundled, VERSION, 1),
    NewState(SubSeq(Bundled, 1, 1), OldVersion, 0),
    [initialized |-> FALSE, commands |-> Arr(<<>>)],
    [initialized |-> TRUE, commands |-> Arr(<<>>), undef |-> {"version", "installedAt"}],
    [initialized |-> FALSE, version |-> VERSION, commands |-> Arr(<<>>),
     undef |-> {"installedAt"}] }

\* state files as any earlier run, version or user may have left them
StoredStateFiles ==
  InitialStateFiles \cup {JsonStringify(Arr(<<>>))} \cup {JsonStringify(s) : s \in States}

InitStore ==
  /\ InitCommon
  /\ fs \in {EmptyFs} \cup {[state |-> s, files |-> f] :
                               s \in StoredStateFiles, f \in {NoFiles, InstalledFiles}}
  /\ catalog = Bundled
  /\ conc = 1

NextStore ==
  \/ CallLoadState
  \/ \E state \in States : CallSaveState(state)
  \/ CallIsStateValid

\* the state store called directly, on any state file
SpecStore == InitStore /\ [][NextStore]_vars

\* version strings of up to MaxSegments numeric segments
Segments == {"0", "1", "2", "10"}

VersionsOfLength(n) == [1..n -> Segments]

Versions == UNION {VersionsOfLength(n) : n \in 1..MaxSegments}

\* the writer alone: write calls, explicit flushes and timers in any order
NextLogger == write \/ Flush \/ TimerFires

\* the event loop runs every timer callback that is due
SpecLoggerFair == InitEmpty /\ [][NextLogger]_vars /\ WF_vars(TimerFires)

\* command definitions: every combination of a few names, descriptions,
\* templates and agents, on both sides of each rule of the validator
CommandNames ==
  { <<"daily", "-", "note">>, <<"Daily", "note">>, <<"daily", " ", "note">>, <<>> }

Descriptions ==
  { Text(70, 9), Text(0, 0), Text(3, 3), Text(DescriptionLimit - 1, 20),
    Text(DescriptionLimit, 20), Text(DescriptionLimit, DescriptionLimit) }

Templates == { Text(662, 141), Text(0, 0), Text(2, 2) }

Agents == AGENT_VALUES \cup {"", "planner"}

Definitions ==
  { Cmd(n, d, t, a) : n \in CommandNames, d \in Descriptions, t \in Templates, a \in Agents }

\* errors as the file system and the installer raise them, and errors with
\* the message texts the retry policy looks for, in either letter case
ErrorCodes ==
  {"EAGAIN", "ECONNRESET", "ETIMEDOUT", "ENFILE", "EMFILE", "EACCES", "ENOSPC", "EROFS",
   "EEXIST", "NONE"}

ErrorMessages ==
  { <<>>, <<"permission denied">>, <<"no space left">>,
    <<"network", "unreachable">>, <<"Network", "unreachable">>,
    <<"request", "timeout">>, <<"request", "Timeout">>,
    <<"resource", "temporary">>, <<"Temporary", "failure">>,
    <<"Invalid command definition for", "daily", "-", "note">> }

Errors == {[code |-> c, message |-> m] : c \in ErrorCodes, m \in ErrorMessages}

InitPure ==
  /\ now = 0
  /\ writer = NewLogFileWriter
  /\ inv = [p \in Procs |-> IdleInv]
  /\ started = 0
  /\ faults = 0
  /\ rmFailed = FALSE
  /\ fs = EmptyFs
  /\ catalog = Bundled
  /\ conc = 1
  /\ probe \in {[op |-> "versions", currentVersion |-> c, newVersion |-> n] :
                   c \in Versions \cup {<<>>}, n \in Versions}
              \cup {[op |-> "command", command |-> c] : c \in Definitions}
              \cup {[op |-> "error", error |-> e] : e \in Errors}

NextPure ==
  \/ CallNeedsUpdate
  \/ CallCompareVersions
  \/ CallValidateCommand
  \/ CallIsTransientError

\* the pure functions of the state manager and of the validator, applied to
\* arguments drawn from bounded sets
SpecPure == InitPure /\ [][NextPure]_vars

----------------------------------------------------------------------------
(* Properties *)

Done(p) == inv[p].pc = "done"

Idle == \A p \in Procs : ~Running(p)

Events(p, kind) == SelectSeq(inv[p].hist, LAMBDA ev : ev.e = kind)

Attempts(p) == Len(Events(p, "attempt"))

Waits(p) == [i \in DOMAIN Events(p, "wait") |-> Events(p, "wait")[i].ms]

\* the install-and-persist sequence of invocation p has failed terminally
InstallFailed(p) ==
  /\ inv[p].outcome = "failed"
  /\ Len(Events(p, "error")) > 0

\* the removal of the cleanup on the failure path succeeded
FinalCleanupOk(p) ==
  /\ Len(inv[p].hist) > 0
  /\ inv[p].hist[Len(inv[p].hist)] = [e |-> "cleanup", ok |-> TRUE]

\* the state file satisfies the validity invariant
ValidFile(f) == ~isStateValidThrows(f) /\ isStateValid(f)

\* the state file is present and fails the validity invariant
CorruptedFile(f) == f.state # Absent /\ ~ValidFile(f)

CatalogNames == {catalog[i].name : i \in DOMAIN catalog}

WrittenSince(f, t) == {n \in FileKeys(f) : f.files[n].mtime >= t}

AllOrNothing(p) ==
  /\ \/ fs.state = Absent
     \/ ValidFile(inv[p].snap) /\ fs.state = inv[p].snap.state
  /\ WrittenSince(fs, inv[p].startedAt) = {}

Consistent(f) ==
  /\ ValidFile(f) => \A n \in CatalogNames : n \in FileKeys(f)
  /\ \A n \in FileKeys(f) :
       /\ ValidFile(f)
       /\ \E i \in DOMAIN loadState(f).commands.v : loadState(f).commands.v[i].name = n

\* C2: from an empty root, whenever no invocation runs and no removal has
\* failed, a valid state file implies a complete command set and there is no
\* orphan command file.
C2_Consistency == (Idle /\ ~rmFailed) => Consistent(fs)

C2_Witness ==
  /\ Idle /\ ~rmFailed /\ faults > 0 /\ started = 2
  /\ ValidFile(fs)
  /\ \E p \in Procs : Done(p) /\ inv[p].force /\ Attempts(p) > 1

SnapVersion(p) == GetString(loadState(inv[p].snap), "version")

\* C3: an invocation without force that finds a valid state of the running
\* version changes nothing on disk and reports "already initialized".
C3_Idempotence ==
  \A p \in Procs :
    (/\ inv[p].pc # "idle" /\ ~inv[p].force
     /\ ValidFile(inv[p].snap)
     /\ ~needsUpdate(SnapVersion(p), VERSION))
    => /\ fs = inv[p].snap
       /\ Done(p) => (inv[p].outcome = "already-initialized" /\ inv[p].exitCode = 0)

\* a second run, without force, after a first run that installed
C3_Witness ==
  \E p \in Procs :
    /\ Done(p) /\ ~inv[p].force /\ started = 2
    /\ inv[p].outcome = "already-initialized"
    /\ loadState(fs).installedAt > 0
    /\ fs = inv[p].snap

\* the corrupted shapes of the claim: not JSON, JSON without commands or
\* without initialized, or {initialized: true, commands: []}
RepairableFile(content) ==
  \/ content = Garbage
  \/ /\ content.kind = "json"
     /\ \/ "commands" \notin DOMAIN content.value
        \/ "initialized" \notin DOMAIN content.value
        \/ content.value.initialized /\ content.value.commands = Arr(<<>>)

FreshState(f) ==
  /\ ValidFile(f)
  /\ Len(loadState(f).commands.v) = Len(catalog)
  /\ \A i \in DOMAIN catalog : loadState(f).commands.v[i].name = catalog[i].name

\* C4: without I/O faults, init without force on a corrupted state file ends
\* without an error and leaves a valid state with one record per catalog
\* entry.
C4_CorruptionRepair ==
  \A p \in Procs :
    (Done(p) /\ ~inv[p].force /\ ~inv[p].faulted /\ RepairableFile(inv[p].snap.state))
    => /\ inv[p].exitCode = 0
       /\ inv[p].outcome = "success"
       /\ FreshState(fs)

C4_Witness ==
  \E p \in Procs :
    /\ Done(p) /\ ~inv[p].force /\ ~inv[p].faulted
    /\ inv[p].snap.state = JsonStringify([initialized |-> TRUE, version |-> OldVersion,
                                          commands |-> Arr(<<>>)])
    /\ FreshState(fs)

CleanedBeforeInstall(p) ==
  /\ Len(inv[p].hist) >= 2
  /\ inv[p].hist[1].e = "cleanup"
  /\ inv[p].hist[2] = [e |-> "attempt", n |-> 1]

\* C5 as claimed: on every corrupted state init cleans the whole root before
\* reinstalling, so a successful init leaves only the catalog's files.
C5_CleanupOnCorruption_AsClaimed ==
  \A p \in Procs :
    (/\ Done(p) /\ inv[p].outcome = "success" /\ ~inv[p].faulted
     /\ CorruptedFile(inv[p].snap))
    => /\ CleanedBeforeInstall(p)
       /\ FileKeys(fs) = CatalogNames

\* C6: init without force on a valid state of a lower version reports the
\* update, writes and deletes nothing and ends with exit code 0.
C6_VersionGate ==
  \A p \in Procs :
    (/\ inv[p].pc # "idle" /\ ~inv[p].force
     /\ ValidFile(inv[p].snap)
     /\ SnapVersion(p) # <<>>
     /\ compareVersions(SnapVersion(p), VERSION) = -1)
    => /\ fs = inv[p].snap
       /\ Done(p) => (inv[p].outcome = "update-available" /\ inv[p].exitCode = 0)

C6_Witness ==
  \E p \in Procs :
    /\ Done(p) /\ ~inv[p].force
    /\ SnapVersion(p) = OldVersion /\ ValidFile(inv[p].snap)
    /\ inv[p].outcome = "update-available"

\* C7: init with force on a valid state cleans up first and then reinstalls;
\* on success the state has the running version and a new installedAt, and
\* every catalog command file has been rewritten.
C7_ForceUpdate ==
  \A p \in Procs :
    (inv[p].force /\ ValidFile(inv[p].snap))
    => /\ Attempts(p) > 0 => CleanedBeforeInstall(p)
       /\ (Done(p) /\ inv[p].outcome = "success") =>
            /\ ValidFile(fs)
            /\ loadState(fs).version = VERSION
            /\ loadState(fs).installedAt > loadState(inv[p].snap).installedAt
            /\ \A i \in DOMAIN catalog :
                 /\ catalog[i].name \in FileKeys(fs)
                 /\ fs.files[catalog[i].name].content = RenderCommand(catalog[i])
                 /\ fs.files[catalog[i].name].mtime >= inv[p].startedAt

C7_Witness ==
  \E p \in Procs :
    /\ Done(p) /\ inv[p].force /\ inv[p].outcome = "success"
    /\ ValidFile(inv[p].snap) /\ SnapVersion(p) = OldVersion
    /\ StaleName \in FileKeys(inv[p].snap)

PermanentError(err) == err.code = "EACCES" \/ ~isTransientError(err)

\* C9: an attempt that fails with a permission error, or any other error
\* outside the transient set, is the last one: no wait and no further
\* attempt follow it, and the error reaches the handler's catch block.
C9_NoRetryOnPermanent ==
  \A p \in Procs : \A i \in DOMAIN inv[p].hist :
    (inv[p].hist[i].e = "error" /\ PermanentError(inv[p].hist[i].err))
    => /\ inv[p].pc \in {"catch", "done"}
       /\ inv[p].lastError = inv[p].hist[i].err
       /\ inv[p].attempt = inv[p].hist[i].attempt
       /\ \A j \in DOMAIN inv[p].hist : j > i => inv[p].hist[j].e = "cleanup"
       /\ Done(p) => inv[p].outcome = "failed"

C9_Witness ==
  \E p \in Procs :
    /\ Done(p) /\ inv[p].outcome = "failed"
    /\ inv[p].lastError.code = "EACCES"
    /\ Attempts(p) = 1 /\ Waits(p) = <<>>

IsInvalidDefinition(err) ==
  Len(err.message) > 0 /\ err.message[1] = "Invalid command definition for"

\* C10 as claimed: an invalid-definition error is never retried: the attempt
\* that raised it is the last one, no wait follows, and the invocation ends
\* in terminal failure.
C10_ValidationNotRetried_AsClaimed ==
  \A p \in Procs : \A i \in DOMAIN inv[p].hist :
    (inv[p].hist[i].e = "error" /\ IsInvalidDefinition(inv[p].hist[i].err))
    => /\ inv[p].pc \in {"catch", "done"}
       /\ inv[p].attempt = inv[p].hist[i].attempt
       /\ \A j \in DOMAIN inv[p].hist : j > i => inv[p].hist[j].e = "cleanup"
       /\ Done(p) => inv[p].outcome = "failed"

ErrorEvents(p) == Events(p, "error")

\* C11: once the retries are exhausted on transient errors, the error that
\* reaches the handler's catch block is the one raised by the third (last)
\* attempt, and it is the one the handler classifies.
C11_LastErrorPropagated ==
  \A p \in Procs :
    (/\ inv[p].pc = "catch" \/ inv[p].outcome = "failed"
     /\ Len(ErrorEvents(p)) = MaxRetries)
    => /\ ErrorEvents(p)[MaxRetries].attempt = MaxRetries
       /\ inv[p].lastError = ErrorEvents(p)[MaxRetries].err
       /\ Done(p) => inv[p].class = ClassifyError(ErrorEvents(p)[MaxRetries].err)

C11_Witness ==
  \E p \in Procs :
    /\ Done(p) /\ inv[p].outcome = "failed"
    /\ Len(ErrorEvents(p)) = MaxRetries
    /\ ErrorEvents(p)[1].err # ErrorEvents(p)[MaxRetries].err
    /\ inv[p].lastError = ErrorEvents(p)[MaxRetries].err

\* the removal of the cleanup on the failure path failed
FinalCleanupFailed(p) ==
  /\ Len(inv[p].hist) > 0
  /\ inv[p].hist[Len(inv[p].hist)] = [e |-> "cleanup", ok |-> FALSE]

\* C12: when the removal of the cleanup on the failure path fails, the
\* invocation still ends in the handler, with a non-zero exit code, and the
\* error it reports and classifies is the install error of the last attempt.
C12_CleanupNeverMasks ==
  \A p \in Procs :
    (InstallFailed(p) /\ FinalCleanupFailed(p))
    => /\ Done(p)
       /\ inv[p].exitCode # 0
       /\ inv[p].lastError = ErrorEvents(p)[Len(ErrorEvents(p))].err
       /\ inv[p].class = ClassifyError(ErrorEvents(p)[Len(ErrorEvents(p))].err)

C12_Witness ==
  \E p \in Procs :
    /\ Done(p) /\ InstallFailed(p) /\ FinalCleanupFailed(p)
    /\ inv[p].cleanupFailed /\ fs # EmptyFs
    /\ inv[p].exitCode = 1

LastEvent(p) == inv[p].hist[Len(inv[p].hist)]

\* the invocation ended in the no-op branch: nothing was attempted
EndedInNoop(p) == Done(p) /\ inv[p].hist = <<>> /\ inv[p].lastError = NoError

\* the invocation ended right after the state was saved
EndedInSuccess(p) == Done(p) /\ inv[p].hist # <<>> /\ LastEvent(p).e = "save"

\* the invocation ended in the catch block, whose last step is the cleanup
EndedInFailure(p) ==
  /\ Done(p) /\ inv[p].lastError # NoError
  /\ inv[p].hist # <<>> /\ LastEvent(p).e = "cleanup"

\* C13: an invocation that ended in success or in a no-op branch (already
\* initialized, update available) returned normally, exit code 0; one that
\* ended in a terminal failure exited with a non-zero code; an invocation
\* ends in exactly one of these ways.
C13_ExitStatus ==
  \A p \in Procs :
    Done(p) =>
      /\ EndedInNoop(p) \/ EndedInSuccess(p) \/ EndedInFailure(p)
      /\ EndedInNoop(p) =>
           /\ inv[p].outcome \in {"already-initialized", "update-available"}
           /\ inv[p].exitCode = 0
      /\ EndedInSuccess(p) => inv[p].outcome = "success" /\ inv[p].exitCode = 0
      /\ EndedInFailure(p) => inv[p].outcome = "failed" /\ inv[p].exitCode > 0

C13_Witness ==
  \E p \in Procs :
    /\ EndedInFailure(p) /\ inv[p].exitCode = 1
    /\ inv[p].lastError = TypeErrorNullLength

\* C14: an invocation never runs the install-and-persist sequence more than
\* 3 times, and every started invocation ends (in success, a no-op branch or
\* a terminal failure): again and again no invocation is running.
C14_Termination ==
  /\ [](\A p \in Procs : Attempts(p) <= MaxRetries /\ inv[p].attempt <= MaxRetries)
  /\ []<>(\A p \in Procs : ~Running(p))

C14_Witness ==
  \E p \in Procs :
    /\ Done(p) /\ inv[p].outcome = "failed"
    /\ Attempts(p) = MaxRetries /\ Len(Waits(p)) = MaxRetries

\* the validity invariant of a loaded state: initialized is true and commands
\* is a non-empty list
ValidityInvariant(state) ==
  /\ state # Null
  /\ "initialized" \in DOMAIN state /\ state.initialized = TRUE
  /\ "commands" \in DOMAIN state
  /\ "v" \in DOMAIN state.commands /\ Len(state.commands.v) > 0

\* C15 as claimed: isStateValid returns true exactly when the loaded state
\* satisfies the validity invariant, and returns false for every other state
\* file.
C15_StateValidity_AsClaimed ==
  probe.op = "isStateValid"
  => /\ ~probe.threw
     /\ probe.result = ValidityInvariant(loadState(fs))

\* a parsed value has the shape of an InstallationState
WellShaped(value) ==
  /\ "initialized" \in DOMAIN value /\ value.initialized \in BOOLEAN
  /\ "commands" \in DOMAIN value /\ "v" \in DOMAIN value.commands

\* C16 as claimed: loadState never throws, and returns null when the state
\* file does not exist, cannot be read, is not JSON, or parses to a value
\* that is not shaped like an InstallationState.
C16_LoadNeverFails_AsClaimed ==
  probe.op = "loadState"
  => /\ ~probe.threw
     /\ (\/ probe.file = Absent
         \/ probe.readFailed
         \/ JsonParseThrows(probe.file)
         \/ ~WellShaped(JsonParse(probe.file)))
        => probe.result = Null

\* deep equality of two objects: properties holding undefined count as missing
DeepEqual(a, b) == DefinedProps(a) = DefinedProps(b)

\* loadState was called right after a saveState that did not throw
LoadedAfterSave ==
  /\ probe.op = "loadState" /\ ~probe.readFailed
  /\ probe.prev.op = "saveState" /\ ~probe.prev.threw

\* C17: a loadState that directly follows a successful saveState(s) returns a
\* value deep-equal to s, whatever was in the installation root before.
C17_SaveLoadRoundTrip ==
  LoadedAfterSave => /\ ~probe.threw
                     /\ probe.result # Null
                     /\ DeepEqual(probe.result, probe.prev.state)

C17_Witness ==
  /\ LoadedAfterSave
  /\ probe.prev.fileExisted
  /\ "undef" \in DOMAIN probe.prev.state
  /\ probe.result # probe.prev.state

\* the number a segment of a version string of the model is written for
SegmentValue(seg) ==
  IF seg = "10" THEN 10 ELSE IF seg = "2" THEN 2 ELSE IF seg = "1" THEN 1 ELSE 0

\* segment i of a version, 0 past its end
Padded(v, i) == IF i \in DOMAIN v THEN SegmentValue(v[i]) ELSE 0

\* a is strictly greater than b: at the first segment where they differ, a's
\* is the larger number
StrictlyGreater(a, b) ==
  \E i \in 1..MaxSegments :
    /\ Padded(a, i) > Padded(b, i)
    /\ \A j \in 1..(i - 1) : Padded(a, j) = Padded(b, j)

\* C18: needsUpdate(installed, catalog) is true exactly when installed is
\* absent or catalog is strictly greater than installed, segment by segment
\* as numbers, missing segments counting as 0.
C18_NeedsUpdate ==
  probe.op = "needsUpdate"
  => (probe.result <=> \/ probe.currentVersion = <<>>
                       \/ StrictlyGreater(probe.newVersion, probe.currentVersion))

C18_Witness ==
  /\ probe.op = "needsUpdate"
  /\ probe.currentVersion = <<"1", "0">> /\ probe.newVersion = <<"1", "0", "0">>
  /\ ~probe.result

\* the rules of the validator, in the order the specification lists them
RuleMessages ==
  << "Name must be alphanumeric with hyphens only",
     "Description is required and cannot be empty",
     "Description must be less than 200 characters",
     "Template is required and cannot be empty",
     "Agent must be one of: general, plan, build, explore" >>

\* rule k is violated by a definition
Violates(command, k) ==
  CASE k = 1 -> ~NAME_REGEX(command.name)
    [] k = 2 -> IsBlank(command.description)
    [] k = 3 -> ~(command.description.len < DescriptionLimit)
    [] k = 4 -> IsBlank(command.template)
    [] k = 5 -> command.agent # "" /\ command.agent \notin AGENT_VALUES

\* the position of a message in the list of rules
RuleOf(msg) == CHOOSE k \in DOMAIN RuleMessages : RuleMessages[k] = msg

\* C19: the error list of validateCommand has one message for every violated
\* rule and no other, in the order of the rules, and valid is true exactly
\* when the list is empty.
C19_ValidateAccumulates ==
  probe.op = "validateCommand"
  => LET errors == probe.result.errors
     IN /\ \A i \in DOMAIN errors : \E k \in DOMAIN RuleMessages : errors[i] = RuleMessages[k]
        /\ \A k \in DOMAIN RuleMessages :
             Violates(probe.command, k) <=> \E i \in DOMAIN errors : errors[i] = RuleMessages[k]
        /\ \A i, j \in DOMAIN errors : i < j => RuleOf(errors[i]) < RuleOf(errors[j])
        /\ probe.result.valid <=> errors = <<>>

C19_Witness ==
  /\ probe.op = "validateCommand"
  /\ probe.result.errors = RuleMessages
  /\ ~probe.result.valid

ValidEntries == {i \in DOMAIN catalog : validateCommand(catalog[i]).valid}

HasInvalidEntry == ValidEntries # DOMAIN catalog

\* a file written by an invocation (the files present at the start are older)
\* is the file of a valid entry: complete, or cut short by a failed write
WrittenFilesAreValid ==
  \A n \in FileKeys(fs) :
    fs.files[n].mtime > 0
    => \E i \in ValidEntries :
         /\ catalog[i].name = n
         /\ fs.files[n].content \in {RenderCommand(catalog[i]), TruncatedFile(0).content}

\* C20: no file of an entry that fails validation is ever written, and with
\* such an entry in the list the installation never completes: the attempt
\* that reaches the entry ends in the invalid-definition error.
C20_ValidatedBeforeWritten ==
  /\ WrittenFilesAreValid
  /\ \A p \in Procs :
       /\ \A i \in DOMAIN inv[p].hist :
            inv[p].hist[i].e = "write"
            => \E k \in ValidEntries : catalog[k].name = inv[p].hist[i].name
       /\ HasInvalidEntry =>
            /\ inv[p].pc # "save" /\ inv[p].outcome # "success"
            /\ Events(p, "save") = <<>>
            /\ (/\ Done(p) /\ Attempts(p) > 0
                /\ \A j \in DOMAIN ErrorEvents(p) : IsInvalidDefinition(ErrorEvents(p)[j].err))
               => /\ inv[p].outcome = "failed"
                  /\ ErrorEvents(p) # <<>>
                  /\ IsInvalidDefinition(inv[p].lastError)

C20_Witness ==
  \E p \in Procs :
    /\ Done(p) /\ inv[p].outcome = "failed"
    /\ IsInvalidDefinition(inv[p].lastError)
    /\ Events(p, "write") # <<>>
    /\ ValidEntries # {} /\ HasInvalidEntry

\* C21: the state file left by a successful init has initialized = true, the
\* running version, and one record per catalog entry, in catalog order, with
\* the entry's name, the running version and source "predefined".
C21_PersistedState ==
  \A p \in Procs :
    (Done(p) /\ inv[p].outcome = "success")
    => LET state == loadState(fs)
       IN /\ state # Null
          /\ state.initialized = TRUE
          /\ state.version = VERSION
          /\ DOMAIN state.commands.v = DOMAIN catalog
          /\ \A i \in DOMAIN catalog :
               /\ state.commands.v[i].name = catalog[i].name
               /\ state.commands.v[i].version = VERSION
               /\ state.commands.v[i].source = "predefined"

C21_Witness ==
  \E p \in Procs :
    /\ Done(p) /\ inv[p].outcome = "success"
    /\ SnapVersion(p) = OldVersion
    /\ Len(loadState(fs).commands.v) > 1
    /\ loadState(fs).installedAt = now

\* the constraints of the data model on a state record
DataModelOk(state) ==
  /\ state.initialized = TRUE
  /\ Len(state.commands.v) > 0
  /\ \A i, j \in DOMAIN state.commands.v :
       i # j => state.commands.v[i].name # state.commands.v[j].name

\* the state file is one that init has written completely: not the file found
\* at the start, and not the remains of a removal or of a failed write
WrittenByInit ==
  /\ fs.state \notin {Absent, Garbage}
  /\ \A p \in Procs : inv[p].pc # "idle" => fs.state # inv[p].snap.state
  /\ started > 0

\* the bundled catalog is not empty and its names are pairwise distinct
PredefinedNamesDistinct ==
  /\ \A i, j \in DOMAIN PREDEFINED_COMMANDS :
       i # j => PREDEFINED_COMMANDS[i].name # PREDEFINED_COMMANDS[j].name
  /\ Len(PREDEFINED_COMMANDS) > 0

\* C22: every state file init writes has initialized = true and a non-empty
\* list of commands with pairwise distinct names (the names of the bundled
\* catalog are pairwise distinct).
C22_WrittenStateWellFormed ==
  /\ PredefinedNamesDistinct
  /\ WrittenByInit => DataModelOk(loadState(fs))

C22_Witness ==
  /\ WrittenByInit
  /\ Len(loadState(fs).commands.v) = NCommands
  /\ \E p \in Procs : Done(p) /\ inv[p].force /\ ValidFile(inv[p].snap)

\* all the invocations started together have ended
AllEnded == started = conc /\ \A p \in Procs : ~Running(p)

Launched == {p \in Procs : inv[p].pc # "idle"}

\* every catalog command has its file
AllCommandFiles == \A n \in CatalogNames : n \in FileKeys(fs)

\* C23: when the invocations started together all run without --force and no
\* I/O call fails, none of them ever holds an error, each ends reporting
\* "initialized successfully" or "already initialized", and once all have
\* ended the state file is valid and every command file is present.
C23_ConcurrentInit ==
  (\A p \in Launched : ~inv[p].force /\ ~inv[p].faulted)
  => /\ \A p \in Launched :
          /\ inv[p].lastError = NoError
          /\ Done(p) => /\ inv[p].outcome \in {"success", "already-initialized"}
                        /\ inv[p].exitCode = 0
     /\ AllEnded => ValidFile(fs) /\ AllCommandFiles

C23_Witness ==
  /\ conc = Concurrency /\ AllEnded
  /\ \A p \in Launched : ~inv[p].force /\ ~inv[p].faulted
  /\ Cardinality({p \in Launched : inv[p].outcome = "success"}) > 1
  /\ \E p \in Launched : inv[p].outcome = "already-initialized"
  /\ ValidFile(fs) /\ AllCommandFiles

\* C24: concurrent invocations can end with a valid state file and a missing
\* command file, and only in one way: an invocation failed and its cleanup
\* removed the files of another one that then saved its state.  When no
\* invocation failed, a valid final state has all its command files.
C24_NotSerializable ==
  (AllEnded /\ ~rmFailed /\ ValidFile(fs) /\ ~AllCommandFiles)
  => /\ \E p \in Launched : InstallFailed(p) /\ FinalCleanupOk(p)
     /\ \E q \in Launched : inv[q].outcome = "success"

C24_Witness ==
  /\ conc = 2 /\ AllEnded /\ ~rmFailed
  /\ ValidFile(fs)
  /\ fs.files = NoFiles
  /\ \E p, q \in Launched :
       /\ InstallFailed(p) /\ FinalCleanupOk(p)
       /\ inv[q].outcome = "success" /\ Len(Events(q, "write")) = Len(catalog)

\* the file of catalog command i is what the installer writes for it
IntactCommandFile(f, i) ==
  /\ catalog[i].name \in FileKeys(f)
  /\ f.files[catalog[i].name].content = RenderCommand(catalog[i])

\* C25 as claimed: an invocation without force that finds a valid state file
\* and an installed command file with corrupted content re-initializes (ends
\* in "initialized successfully") and leaves every command file intact.
C25_CorruptedCommandFile_AsClaimed ==
  \A p \in Procs :
    (/\ Done(p) /\ ~inv[p].force /\ ~inv[p].faulted
     /\ ValidFile(inv[p].snap)
     /\ \E i \in DOMAIN catalog :
          /\ catalog[i].name \in FileKeys(inv[p].snap)
          /\ ~IntactCommandFile(inv[p].snap, i))
    => /\ inv[p].outcome = "success"
       /\ \A i \in DOMAIN catalog : IntactCommandFile(fs, i)

\* the index of the last "attempt" event before position i of p's history
AttemptStart(p, i) ==
  LET starts == {k \in 1..(i - 1) : inv[p].hist[k].e = "attempt"}
  IN IF starts = {} THEN 0 ELSE CHOOSE k \in starts : \A m \in starts : m <= k

\* the names of the command files written in the attempt running at position i
WritesOfAttempt(p, i) ==
  LET from == AttemptStart(p, i)
      evs == SelectSeq(SubSeq(inv[p].hist, from + 1, i - 1), LAMBDA ev : ev.e = "write")
  IN [k \in DOMAIN evs |-> evs[k].name]

\* C26: within an attempt the state file is written only after the command
\* file of every catalog entry has been written in that attempt, in catalog
\* order; the save is not even reached before.
C26_StateSavedLast ==
  \A p \in Procs :
    /\ \A i \in DOMAIN inv[p].hist :
         inv[p].hist[i].e = "save"
         => WritesOfAttempt(p, i) = [k \in DOMAIN catalog |-> catalog[k].name]
    /\ inv[p].pc = "save"
       => WritesOfAttempt(p, Len(inv[p].hist) + 1) = [k \in DOMAIN catalog |-> catalog[k].name]

C26_Witness ==
  \E p \in Procs :
    /\ Done(p) /\ inv[p].outcome = "success"
    /\ Attempts(p) = 2
    /\ Len(Events(p, "write")) > Len(catalog)

IsPermission(err) == err.code = "EACCES" \/ Includes(err.message, "permission denied")

IsDiskSpace(err) == err.code = "ENOSPC" \/ Includes(err.message, "no space left")

IsReadOnly(err) == err.code = "EROFS" \/ Includes(err.message, "read-only")

\* the class the claim gives an error: the first of the three tests it passes
ClaimedClass(err) ==
  CHOOSE c \in {"permission", "disk-space", "read-only", "other"} :
    /\ c = "permission" <=> IsPermission(err)
    /\ c = "disk-space" <=> (~IsPermission(err) /\ IsDiskSpace(err))
    /\ c = "read-only" <=> (~IsPermission(err) /\ ~IsDiskSpace(err) /\ IsReadOnly(err))

\* errors with every combination of a code and of the three message texts
ClassifiedSamples ==
  { [code |-> c, message |-> m] :
      c \in {"EACCES", "ENOSPC", "EROFS", "EMFILE", "NONE"},
      m \in { <<>>, <<"permission denied">>, <<"no space left">>, <<"read-only">>,
              <<"no space left", "permission denied">>,
              <<"read-only", "no space left">>,
              <<"read-only", "permission denied">> } }

\* every sample error gets the class of the claim
ClassifiedAsClaimed == \A err \in ClassifiedSamples : ClassifyError(err) = ClaimedClass(err)

\* the cleanup events of p other than the one that ends its history
EarlierCleanups(p) ==
  {i \in 1..(Len(inv[p].hist) - 1) : inv[p].hist[i].e = "cleanup"}

\* C27: the catch block gives every error the first class whose test it
\* passes (permission, disk space, read-only, else other); an invocation that
\* failed has exit code 1, holds the class of its error, and ran the cleanup
\* exactly once after the failure, as its last step.
C27_ClassifiedFailure ==
  /\ ClassifiedAsClaimed
  /\ \A p \in Procs :
       (Done(p) /\ inv[p].outcome = "failed")
       => /\ inv[p].class = ClaimedClass(inv[p].lastError)
          /\ inv[p].exitCode = 1
          /\ LastEvent(p).e = "cleanup"
          /\ EarlierCleanups(p) \subseteq {1}
          /\ 1 \in EarlierCleanups(p) => inv[p].hist[2] = [e |-> "attempt", n |-> 1]

C27_Witness ==
  \E p \in Procs :
    /\ Done(p) /\ inv[p].outcome = "failed"
    /\ inv[p].class = "disk-space"
    /\ EarlierCleanups(p) = {1}
    /\ Len(Events(p, "cleanup")) = 2

\* every file that was there when p started is still there
NothingDeleted(p) == \A n \in FileKeys(inv[p].snap) : n \in FileKeys(fs)

\* C28: an invocation without force that finds no state file runs no cleanup
\* before installing: until it fails nothing under the root is deleted, and
\* after a successful init the files that were there before are still there,
\* those that are not command files of the catalog unchanged.
C28_NoCleanupWhenAbsent ==
  \A p \in Procs :
    (inv[p].pc # "idle" /\ ~inv[p].force /\ inv[p].snap.state = Absent)
    => /\ inv[p].pc # "cleanup"
       /\ ~CleanedBeforeInstall(p)
       /\ inv[p].outcome # "failed" => NothingDeleted(p) /\ Events(p, "cleanup") = <<>>
       /\ inv[p].outcome = "success"
          => \A n \in FileKeys(inv[p].snap) \ CatalogNames :
               fs.files[n] = inv[p].snap.files[n]

C28_Witness ==
  \E p \in Procs :
    /\ Done(p) /\ inv[p].outcome = "success"
    /\ ~inv[p].force /\ inv[p].snap.state = Absent
    /\ StaleName \in FileKeys(inv[p].snap)
    /\ fs.files[StaleName] = StaleFile

TransientCodes == {"EAGAIN", "ECONNRESET", "ETIMEDOUT", "ENFILE", "EMFILE"}

TransientWords == {"network", "timeout", "temporary"}

\* C29: isTransientError is true exactly for an error whose code is one of
\* the five transient codes or whose message, in lower case, contains
\* "network", "timeout" or "temporary"; every other error is permanent.
C29_TransientClassification ==
  probe.op = "isTransientError"
  => (probe.result <=>
        \/ probe.error.code \in TransientCodes
        \/ \E i \in DOMAIN probe.error.message :
             LowerTok(probe.error.message[i]) \in TransientWords)

C29_Witness ==
  /\ probe.op = "isTransientError"
  /\ probe.error = [code |-> "NONE", message |-> <<"Network", "unreachable">>]
  /\ probe.result

RECURSIVE SumOf(_)
SumOf(s) == IF s = <<>> THEN 0 ELSE s[1] + SumOf(Tail(s))

\* the I/O errors the retry policy takes for transient
TransientIOErrors == {e \in IOErrors : isTransientError(e)}

IsTransient(e) == IF e \in IOErrors THEN e \in TransientIOErrors ELSE isTransientError(e)

\* the retry wrapper of invocation p has thrown after three transient errors
ExhaustedOnTransient(p) ==
  /\ inv[p].pc \in {"catch", "done"}
  /\ Len(ErrorEvents(p)) = 3
  /\ \A i \in 1..3 : IsTransient(ErrorEvents(p)[i].err)

SaveFailedAt(p, i) ==
  /\ i > 1
  /\ inv[p].hist[i].e = "error"
  /\ inv[p].hist[i - 1] = [e |-> "write", name |-> catalog[Len(catalog)].name]

\* C31: a retry runs the whole install-and-persist sequence again from its
\* first step, also after a failed state save, and nothing is cleaned up
\* between the attempts: the command files of an earlier failed attempt are
\* on disk until a later attempt overwrites them or the cleanup after the
\* terminal failure removes them.
C31_RetryRestartsWholeSequence ==
  \A p \in Procs :
    LET h == inv[p].hist
    IN /\ \A i \in DOMAIN h :
            /\ h[i].e = "wait"
               => IF i = Len(h)
                  THEN \/ inv[p].pc = "mkdir" /\ inv[p].idx = 0
                       \/ inv[p].pc = "catch" /\ inv[p].attempt = MaxRetries
                  ELSE h[i + 1].e \in {"attempt", "cleanup"}
            /\ (h[i].e = "attempt" /\ i < Len(h) /\ h[i + 1].e = "write")
               => h[i + 1].name = catalog[1].name
            /\ h[i].e = "cleanup"
               => \/ \A j \in 1..i : h[j].e # "attempt"
                  \/ Done(p) /\ i = Len(h) /\ inv[p].outcome = "failed"
       /\ (Running(p) /\ inv[p].pc \notin {"isInitialized", "isStateValid", "loadState", "cleanup"})
          => \A i \in DOMAIN h :
               h[i].e = "write"
               => /\ h[i].name \in FileKeys(fs)
                  /\ fs.files[h[i].name].mtime >= inv[p].startedAt

C31_Witness ==
  \E p \in Procs : \E i \in DOMAIN inv[p].hist :
    /\ SaveFailedAt(p, i)
    /\ inv[p].pc = "write" /\ inv[p].attempt = 2 /\ inv[p].idx = 1
    /\ LastEvent(p) = [e |-> "attempt", n |-> 2]
    /\ \A k \in DOMAIN catalog : catalog[k].name \in FileKeys(fs)


\* invocation p was forced on a valid installation and its
\* install-and-persist sequence failed terminally
ForcedOnValidFailed(p) ==
  /\ Done(p) /\ InstallFailed(p)
  /\ inv[p].force
  /\ ValidFile(inv[p].snap)

\* the previous installation was cleaned up before the first attempt, and
\* nothing of any installation is left
CleanedFirstAndEmpty(p) ==
  /\ inv[p].hist[1].e = "cleanup"
  /\ inv[p].hist[2] = [e |-> "attempt", n |-> 1]
  /\ fs.state = Absent
  /\ FileKeys(fs) = {}

FailedAndRemoved(p) ==
  /\ Done(p)
  /\ inv[p].outcome = "failed"
  /\ LastEvent(p) = [e |-> "cleanup", ok |-> TRUE]

\* entries of the root that were there when invocation p started and that
\* p has not written
Untouched(p) ==
  {n \in FileKeys(inv[p].snap) : \A i \in DOMAIN inv[p].hist :
                                   inv[p].hist[i].e = "write" => inv[p].hist[i].name # n}

\* C33: the cleanup removes the whole installation root: after a terminal
\* failure whose removal succeeded nothing is left under .opencode, the
\* entries that were there before the invocation and that it never wrote
\* included.
C33_CleanupRemovesRoot ==
  \A p \in Procs :
    FailedAndRemoved(p)
    => /\ fs.state = Absent
       /\ \A n \in Untouched(p) : n \notin FileKeys(fs)
       /\ fs = EmptyFs

C33_Witness ==
  \E p \in Procs :
    /\ FailedAndRemoved(p)
    /\ ~inv[p].force
    /\ inv[p].hist[1].e = "attempt"
    /\ StaleName \in Untouched(p)
    /\ fs = EmptyFs


\* the removal before the reinstall of invocation p failed (a history that
\* consists of one cleanup and ends the invocation is the catch block's)
PreCleanupFailed(p) ==
  /\ Len(inv[p].hist) > 0
  /\ inv[p].hist[1] = [e |-> "cleanup", ok |-> FALSE]
  /\ ~(Len(inv[p].hist) = 1 /\ Done(p))

\* C34: a failed cleanup before the reinstall (force, or initialized but
\* invalid state) does not end the invocation: the first install attempt
\* follows it, over whatever the failed removal left behind.
C34_PreCleanupFailureNotFatal ==
  \A p \in Procs :
    PreCleanupFailed(p)
    => /\ inv[p].force \/ (inv[p].initialized /\ ~inv[p].stateValid)
       /\ IF Len(inv[p].hist) = 1
          THEN /\ inv[p].pc = "mkdir" /\ inv[p].attempt = 1
               /\ inv[p].lastError = NoError
               /\ fs \in RmFailOutcomes(inv[p].snap)
          ELSE inv[p].hist[2] = [e |-> "attempt", n |-> 1]
       /\ inv[p].outcome = "failed" => Len(ErrorEvents(p)) > 0

C34_Witness ==
  \E p \in Procs :
    /\ PreCleanupFailed(p)
    /\ Done(p) /\ inv[p].outcome = "success"
    /\ StaleName \in FileKeys(inv[p].snap)
    /\ StaleName \in FileKeys(fs)
    /\ fs.files[StaleName] = StaleFile


\* invocation q has made no call that can change the installation root
Quiet(q) ==
  \A i \in DOMAIN inv[q].hist : inv[q].hist[i].e \notin {"cleanup", "write", "save", "error"}

\* the file system with the state file as the k-th read of p found it
AsSeen(p, k) == [state |-> inv[p].seen[k], files |-> NoFiles]

\* C35: the handler reads the state file three times (isInitialized,
\* isStateValid, loadState) and acts on each read as it comes; when no other
\* invocation changes the installation root the reads all find the state
\* file the invocation started with.  (With another invocation removing the
\* root between the reads, the no-op branch is taken on a state file that
\* is gone at the third read: the witness.)
C35_ReadsAgreeWithoutWriter ==
  \A p \in Procs :
    /\ Len(inv[p].seen) <= 3
    /\ Len(inv[p].seen) >= 1 => inv[p].initialized = isInitialized(AsSeen(p, 1))
    /\ (Len(inv[p].seen) >= 2 /\ ~isStateValidThrows(AsSeen(p, 2)))
       => inv[p].stateValid = isStateValid(AsSeen(p, 2))
    /\ Len(inv[p].seen) = 3
       => /\ Done(p) /\ inv[p].exitCode = 0
          /\ inv[p].outcome = NoopReport(AsSeen(p, 3), VERSION)
    /\ (\A q \in Procs \ {p} : Quiet(q))
       => \A k \in DOMAIN inv[p].seen : inv[p].seen[k] = inv[p].snap.state

C35_Witness ==
  \E p \in Procs :
    /\ Done(p) /\ inv[p].outcome = "already-initialized"
    /\ ValidFile(AsSeen(p, 1)) /\ inv[p].seen[2] = inv[p].seen[1]
    /\ inv[p].seen[3] = Absent
    /\ loadState(AsSeen(p, 3)) = Null
    /\ fs.state = Absent
    /\ \E q \in Procs \ {p} : ~Quiet(q)

\* an invocation whose three reads found the state file unchanged while no
\* other invocation had touched the root
QuietReader ==
  \E p \in Procs :
    /\ Len(inv[p].seen) = 3
    /\ \E q \in Procs \ {p} : inv[q].pc # "idle"
    /\ \A q \in Procs \ {p} : Quiet(q)


\* the handler of invocation p has inspected the state and chosen its branch
Decided(p) == inv[p].pc \notin {"idle", "isInitialized", "isStateValid"}

\* the three branches of the controller, as the history of p shows them
InstallsWithoutCleanup(p) ==
  /\ inv[p].pc # "loadState"
  /\ inv[p].hist # <<>> => inv[p].hist[1] = [e |-> "attempt", n |-> 1]
  /\ inv[p].hist = <<>> => inv[p].pc = "mkdir"

CleansThenInstalls(p) ==
  IF inv[p].hist = <<>>
  THEN inv[p].pc = "cleanup"
  ELSE /\ inv[p].hist[1].e = "cleanup"
       /\ IF Len(inv[p].hist) = 1
          THEN inv[p].pc = "mkdir"
          ELSE inv[p].hist[2] = [e |-> "attempt", n |-> 1]

TakesNoop(p) ==
  /\ inv[p].hist = <<>>
  /\ inv[p].pc \in {"loadState", "done"}
  /\ Done(p) => inv[p].outcome \in {"already-initialized", "update-available"}

\* isStateValid returns true on the state file of f
ReturnsValid(f) == ~isStateValidThrows(f) /\ isStateValid(f)

\* the branch the three-way partition assigns to invocation p
ThreeWay(p) ==
  LET initialized == isInitialized(inv[p].snap)
      valid == ReturnsValid(inv[p].snap)
  IN /\ valid => initialized
     /\ (~initialized /\ ~inv[p].force) => InstallsWithoutCleanup(p)
     /\ ((initialized /\ ~valid) \/ inv[p].force) => CleansThenInstalls(p)
     /\ (valid /\ ~inv[p].force) => TakesNoop(p)

\* C36 as claimed: isStateValid implies isInitialized, and every state falls
\* into exactly one of three cases: not initialized (install without
\* cleanup), initialized but invalid (cleanup, then install), valid (no-op
\* unless forced).
C36_ThreeWayDecision_AsClaimed ==
  \A p \in Procs : Decided(p) => ThreeWay(p)

\* the same for every state on which isStateValid returns
ThreeWayWhereDefined ==
  \A p \in Procs : (Decided(p) /\ ~isStateValidThrows(inv[p].snap)) => ThreeWay(p)


\* the versions of one or two segments, as third argument of the
\* transitivity law
ShortVersions == VersionsOfLength(1) \cup VersionsOfLength(2)

\* C37: on dotted numeric versions compareVersions is a consistent
\* three-way comparison: compareVersions(a, a) = 0, compareVersions(a, b) =
\* -compareVersions(b, a), it is transitive, and appending ".0" to either
\* argument does not change the result; needsUpdate(v, v) is false for every
\* present version v.
C37_ConsistentComparison ==
  /\ probe.op = "compareVersions"
     => LET a == probe.v1
            b == probe.v2
            r == probe.result
        IN /\ r \in {-1, 0, 1}
           /\ a = b => r = 0
           /\ compareVersions(b, a) = 0 - r
           /\ \A c \in ShortVersions :
                /\ (r <= 0 /\ compareVersions(b, c) <= 0) => compareVersions(a, c) <= 0
                /\ (r < 0 /\ compareVersions(b, c) < 0) => compareVersions(a, c) < 0
                /\ (r = 0 /\ compareVersions(b, c) = 0) => compareVersions(a, c) = 0
           /\ compareVersions(Append(a, "0"), b) = r
           /\ compareVersions(a, Append(b, "0")) = r
  /\ (probe.op = "needsUpdate" /\ probe.currentVersion = probe.newVersion)
     => probe.result = FALSE

C37_Witness ==
  /\ probe.op = "compareVersions"
  /\ probe.v1 = <<"1", "10">>
  /\ probe.v2 = <<"1", "2", "0">>
  /\ probe.result = 1
  /\ compareVersions(probe.v2, probe.v1) = 0 - 1


\* the messages handed to appendFile followed by those still buffered are
\* the messages passed to write, each once and in write order; a buffer that
\* is not empty has a delayed flush pending
HandedOrPending ==
  /\ writer.appended \o writer.buffer = [i \in 1..writer.written |-> i]
  /\ Len(writer.buffer) < MaxBufferSize
  /\ writer.buffer # <<>> => (writer.writeScheduled /\ writer.timers > 0)

\* C38: while appends succeed the writer loses no message: after any
\* sequence of write calls, explicit flushes and timer firings every message
\* passed to write is handed to an append once and in write order or is
\* still buffered with a delayed flush pending, and a buffer that is not
\* empty is eventually flushed.
C38_NoMessageLost ==
  /\ []HandedOrPending
  /\ (writer.buffer # <<>>) ~> (writer.buffer = <<>>)

C38_Witness ==
  /\ writer.written = MaxBufferSize + 1
  /\ Len(writer.appended) = MaxBufferSize
  /\ writer.buffer = <<MaxBufferSize + 1>>
  /\ writer.timers = 2

====
